---- MODULE Spec2Model ----
(***************************************************************************)
(* Model of the time-budgeted Google Maps actor (.actor/main.js): the      *)
(* search-term loop with its per-term time budget, pre-trim, per-place     *)
(* extraction loop, dedup ledger and concurrent email enrichment, and the  *)
(* scroll-based link collector scrollAndCollect.                           *)
(*                                                                         *)
(* Time is in milliseconds since START_TIME, so elapsed() = now.           *)
(***************************************************************************)
EXTENDS Integers, Sequences, FiniteSets, TLC

(* ------------------------------ bounds --------------------------------- *)
\* largest number of search terms of a run
MaxTerms == 2
\* number of distinct place links the pages can show
MaxLinks == 4
\* largest maxResults handed to scrollAndCollect
MaxTarget == 3
\* largest number of search terms the budget formulas are evaluated for
MaxBudgetTerms == 3
\* longest list of anchors one DOM harvest returns
MaxDom == 2
\* number of distinct place links the result list can show while scrolling
MaxDomLinks == 2
MaxDirect == 1
MaxBootTerms == 2
MaxJobs == 2
MaxCredits == 2
\* length of the selector list handleConsent probes
MaxSelectors == 3
\* largest number of buttons the consent page has
MaxButtons == 6
\* half windows the rate limiter's clock runs for
MaxClockTicks == 3
\* largest count a rate-limit record reaches
MaxCount == 32
\* API jobs created in one run of the store
MaxApiJobs == 2
\* cleanup ages the job store's clock runs for
MaxApiTicks == 2

(* ------------------------- program constants --------------------------- *)
TIMEOUT_MS == 270000
TermGuardMs == 30000
PerFutureTermReserve == 25000
MinTermAllowance == 25000
SafetyMarginMs == 5000
PerPlaceCostMs == 8000
EmailSafetyMs == 10000
EmailCapMs == 15000
EmailFloorMs == 3000
MaxScrollAttempts == 100
DefaultMaxResults == 120
ScrollGuardMs == 10000
EndCheckAfter == 3
ButtonProbeLimit == 5
WindowMs == 60000
ScrapeMax == 5
GlobalMax == 30
CleanupMaxAgeMs == 3600000

\* steps of the two API clocks: half a rate window, one cleanup age
ClockStep == WindowMs \div 2
ApiClockStep == CleanupMaxAgeMs

(* ------------------------------ helpers -------------------------------- *)
Max(a, b) == IF a >= b THEN a ELSE b
Min(a, b) == IF a <= b THEN a ELSE b
Range(s) == {s[k] : k \in 1..Len(s)}
NoDuplicates(s) == \A a, b \in 1..Len(s) : a # b => s[a] # s[b]

Links == 1..MaxLinks

\* Durations (ms) the environment may take for the awaited steps.
\* A search ends quickly, or when scrollAndCollect runs until its time guard
\* timeOk(10_000) fails and its last round (recovery sleep and wait) is over.
SearchDur == {5000}
LastRoundMs == 2000 + 3000
ScrollStopsAt == TIMEOUT_MS - ScrollGuardMs + LastRoundMs
SearchEnds(t) ==
    {t + d : d \in SearchDur} \cup
    {IF t + d >= ScrollStopsAt THEN t + d ELSE ScrollStopsAt : d \in SearchDur}
PlaceDur == {12500}
BootDur == {5000}
PageUrls == {"maps", "consent", "other"}
SearchSites == {"searchNav", "searchConsentNav", "retryNav"}
PushDur == {5000}

\* Link lists a search can produce: duplicate free (scrollAndCollect returns
\* the contents of a Set; a redirect to a place page yields one link).
LinkLists ==
    {[k \in 1..(hi - lo + 1) |-> lo + k - 1] : lo \in 1..(MaxLinks + 1), hi \in 0..MaxLinks}

VARIABLES
    \* ---- actor main task ----
    now,              \* Date.now() - START_TIME
    pc,               \* position of the main task
    numTerms,         \* searchTerms.length
    scrapeEmails,     \* input.scrapeEmails
    filterOn,         \* minRating or status given
    i,                \* index of the search-term loop
    j,                \* index of the per-place loop
    placeLinks,       \* links collected for the current term
    newLinks,         \* placeLinks minus the ledger
    newLinksTrimmed,  \* newLinks after the pre-trim
    termAllowance,    \* Math.max(termTimeLimit, 25_000) of the current term
    termDeadline,     \* deadline of the current term
    budgetedAt,       \* elapsed() when the current term was budgeted
    results,          \* records of the current term
    emailJobs,        \* { idx, promise } of the current term
    extractedUrls,    \* dedup ledger
    dataset,          \* data.url of the records pushed with Actor.pushData
    totalResults,
    lastNav,          \* link of the last page.goto of the place loop (0: none)
    attempts,         \* page.goto calls of the place loop in the current term
    placeStart,       \* Date.now() at the last page.goto of the place loop
    skippedTerms,     \* terms never started because of the time guard
    retryLink,        \* a link that failed before and is collected again (0: none)
    \* ---- browser, page and end of the run ----
    numDirect,        \* directUrls.length (0 until the direct-URL loop reads it)
    directIdx,        \* index of the direct-URL loop
    browserOpen,      \* a launched browser has not been closed
    closeCalls,       \* calls of browser.close()
    pageUrl,          \* what page.url() is: the "maps" root, a "consent" page,
                      \* a "search" or "direct" page, or some "other" page
    failureSite,      \* the await whose rejection reached the top-level catch
    \* ---- scrollAndCollect ----
    sPc,
    maxResults,
    collected,        \* the Set placeLinks, in insertion order
    scrollAttempts,
    previousCount,
    staleRounds,
    markerSeen,       \* end-of-list marker present at the last inspection
    inspectedAt,      \* scrollAttempts at the last inspection (-1: none)
    lastStep,         \* what the last round did after the harvest
    stepsTried,       \* recovery steps applied since the set last grew
    feed,             \* how the results feed answers a harvest
    \* ---- budget formulas on their own ----
    bPc,
    bTerms,           \* searchTerms.length
    bIndex,           \* i
    bElapsed,         \* elapsed() when the term is budgeted
    bCandidates,      \* newLinks.length
    bReserve,         \* reserveForFuture
    bAllowance,       \* Math.max(termTimeLimit, 25_000)
    bTrimmed,         \* newLinksTrimmed.length
    \* ---- bootstrap with proxy fallback ----
    xPc,
    proxyUrl,         \* "none", "unparsable" or "usable"
    proxyOutcome,     \* result of launchAndTest(playwrightProxy, 'PROXY')
    proxyAttempts,    \* calls of launchAndTest with the proxy
    directAttempts,   \* calls of launchAndTest without it
    liveBrowsers,     \* browsers launched and not closed
    browser,          \* the variable browser holds a launched browser
    xUrl,             \* what page.url() matches
    xNumTerms,        \* searchTerms.length
    xTerm,            \* index of the search-term loop
    \* ---- webapp scrape job ----
    credits,          \* users.credits of the one user
    webhookEvents,    \* events column of the user's webhook ("none": no row)
    scrapeJobs,       \* scrape_jobs rows and their runWebappScrapeJob task
    transactions,     \* credit_transactions rows with type 'scrape'
    \* ---- handleConsent ----
    cPc,
    probes,           \* outcome of each selector probed so far, in list order
    numButtons,       \* allButtons.count()
    buttons,          \* what was seen and done at each button examined
    cUrl,             \* what page.url() is
    cResult,          \* "none", "true", "false" or "throws"
    \* ---- API rate limiter ----
    lNow,             \* Date.now() of the API process
    rateRecord,       \* rateLimitStore entry of the client's key
    globalSeen,       \* requests that reached the global limiter this window
    scrapeSeen,       \* requests that reached the scrape limiter this window
    verdict,          \* what the middleware chain did with the last request
    \* ---- API job store ----
    aNow,             \* Date.now() of the API process
    apiJobs,          \* jobStore.jobs and each job's runScrapeJob task
    lastGet           \* body of the last GET /jobs/:id response

actorVars == <<now, pc, numTerms, scrapeEmails, filterOn, i, j, placeLinks,
               newLinks, newLinksTrimmed, termAllowance, termDeadline,
               budgetedAt, results, emailJobs, extractedUrls, dataset,
               totalResults, lastNav, attempts, placeStart,
               skippedTerms, retryLink>>
scrollVars == <<sPc, maxResults, collected, scrollAttempts, previousCount,
                staleRounds, markerSeen, inspectedAt, lastStep,
                stepsTried, feed>>
budgetVars == <<bPc, bTerms, bIndex, bElapsed, bCandidates, bReserve,
                bAllowance, bTrimmed>>
runVars == <<numDirect, directIdx, browserOpen, closeCalls, pageUrl, failureSite>>
bootVars == <<xPc, proxyUrl, proxyOutcome, proxyAttempts, directAttempts,
              liveBrowsers, browser, xUrl, xNumTerms, xTerm>>
webVars == <<credits, webhookEvents, scrapeJobs, transactions>>
consentVars == <<cPc, probes, numButtons, buttons, cUrl, cResult>>
limitVars == <<lNow, rateRecord, globalSeen, scrapeSeen, verdict>>
apiVars == <<aNow, apiJobs, lastGet>>
sideVars == <<consentVars, limitVars, apiVars>>
auxVars == <<bootVars, webVars, sideVars>>
vars == <<actorVars, runVars, scrollVars, budgetVars, auxVars>>

(* --------------------------- time budget ------------------------------- *)
elapsed(t) == t
remaining(t) == TIMEOUT_MS - elapsed(t)
timeOk(t, neededMs) == remaining(t) > neededMs

(* ------------------------- per-term budgeting -------------------------- *)
ReserveCountsCurrent(n, idx) == (n - idx) * PerFutureTermReserve
reserveForFuture(n, idx) == (n - idx - 1) * PerFutureTermReserve
termTimeLimit(n, idx, t) == remaining(t) - reserveForFuture(n, idx) - SafetyMarginMs
TermAllowanceNoFloor(n, idx, t) == termTimeLimit(n, idx, t)
TermAllowance(n, idx, t) == Max(termTimeLimit(n, idx, t), MinTermAllowance)
TermDeadline(n, idx, t) == t + TermAllowance(n, idx, t)

\* if (Date.now() + 5_000 > termDeadline) break;
TermLimitLate(t, deadline) == t > deadline
TermLimitHit(t, deadline) == t + SafetyMarginMs > deadline

MaxExtractableLoose(msForExtraction) == Max(msForExtraction \div SafetyMarginMs, 1)
maxExtractable(msForExtraction) == Max(msForExtraction \div PerPlaceCostMs, 1)
Slice(s, n) == SubSeq(s, 1, Min(n, Len(s)))
PreTrim(links, deadline, t) == Slice(links, maxExtractable(deadline - t))

(* ----------------------------- dedup ledger ---------------------------- *)
KeepAllLinks(links, ledger) == links
NewLinks(links, ledger) == SelectSeq(links, LAMBDA u : u \notin ledger)

MarkOnlyLast(ledger, url) == {url}
MarkExtracted(ledger, url) == ledger \cup {url}

MarkAlways(ok, url, ledger) == MarkExtracted(ledger, url)
LedgerAfterPlace(ok, url, ledger) == IF ok THEN MarkExtracted(ledger, url) ELSE ledger

(* ------------------------------ records -------------------------------- *)
\* What one visit of a place page can yield: the navigation or the evaluate
\* throws, the h1 is empty, or the place data are read.
Pages == {"threw", "noName", "ok"}

\* The places behind the links: what their pages show when they load.
\* r.website non-empty
HasWebsite(url) == url > 1
\* totalReviewScore >= minRating
HighRated(url) == url % 3 # 0
\* the website of the place shows an email address
SiteHasEmails(url) == url % 2 = 0

PlaceOk(page) == page = "ok"

\* data.url, data.website, data.emails = data.email ? [data.email] : []
\* (Maps pages rarely show an email: none here), totalReviewScore
Record(url) ==
    [url |-> url,
     website |-> HasWebsite(url),
     emails |-> "none",
     rated |-> HighRated(url)]

NeedsLookup(flag, rec) == flag /\ rec.website /\ rec.emails = "none"

ResultsLostOnFailure(ok, rec, res) == IF ok THEN Append(res, rec) ELSE <<>>
ResultsAfterPlace(ok, rec, res) == IF ok THEN Append(res, rec) ELSE res

\* idx taken from the loop index instead of results.length
JobsIndexedByVisit(ok, flag, rec, res, jobs) ==
    IF ok /\ NeedsLookup(flag, rec)
    THEN Append(jobs, [idx |-> j, site |-> rec.url, state |-> "pending"])
    ELSE jobs
JobsAfterPlace(ok, flag, rec, res, jobs) ==
    IF ok /\ NeedsLookup(flag, rec)
    THEN Append(jobs, [idx |-> Len(res), site |-> rec.url, state |-> "pending"])
    ELSE jobs

(* --------------------------- email enrichment -------------------------- *)
emailTimeoutNoCap(t) == Max(remaining(t) - EmailSafetyMs, EmailFloorMs)
emailTimeout(t) == Max(Min(remaining(t) - EmailSafetyMs, EmailCapMs), EmailFloorMs)

AllSettled(jobs) == \A k \in 1..Len(jobs) : jobs[k].state # "pending"

\* Promise.race([Promise.allSettled(...), sleep(emailTimeout).then(() => null)]):
\* the array of outcomes when every lookup settled within the wait, else null.
PatchEveryRecord(res, jobs) ==
    IF AllSettled(jobs)
    THEN [r \in 1..Len(res) |->
            IF \E k \in 1..Len(jobs) : jobs[k].state = "found"
            THEN [res[r] EXCEPT !.emails = "web"]
            ELSE res[r]]
    ELSE res
PatchEmails(res, jobs) ==
    IF AllSettled(jobs)
    THEN [r \in 1..Len(res) |->
            IF \E k \in 1..Len(jobs) : jobs[k].idx + 1 = r /\ jobs[k].state = "found"
            THEN [res[r] EXCEPT !.emails = "web"]
            ELSE res[r]]
    ELSE res

(* ------------------------------- filters ------------------------------- *)
Reverse(s) == [k \in 1..Len(s) |-> s[Len(s) + 1 - k]]
FilterNewestFirst(res, minRating) ==
    IF ~minRating THEN res ELSE Reverse(SelectSeq(res, LAMBDA r : r.rated))
filterByRating(res, minRating) ==
    IF ~minRating THEN res ELSE SelectSeq(res, LAMBDA r : r.rated)

(* ============================ actor main task ========================== *)
ScrollIdle ==
    /\ sPc = "idle" /\ maxResults = 0 /\ collected = <<>>
    /\ scrollAttempts = 0 /\ previousCount = 0 /\ staleRounds = 0
    /\ markerSeen = FALSE /\ inspectedAt = -1 /\ lastStep = "none"
    /\ stepsTried = <<>> /\ feed = "any"

BootIdle ==
    /\ xPc = "idle" /\ proxyUrl = "none" /\ proxyOutcome = "none"
    /\ proxyAttempts = 0 /\ directAttempts = 0 /\ liveBrowsers = 0
    /\ browser = FALSE /\ xUrl = "none" /\ xNumTerms = 1 /\ xTerm = 0

JobIds == 1..MaxJobs
NoJob == [at |-> "none", status |-> "none", units |-> 0, allResults |-> 0,
          creditsUsed |-> 0, scraper |-> FALSE]

WebIdle ==
    /\ credits = 0 /\ webhookEvents = "none"
    /\ scrapeJobs = [k \in JobIds |-> NoJob]
    /\ transactions = <<>>

ApiJobIds == 1..MaxApiJobs
NoRecord == [count |-> 0, resetAt |-> -1]
NoApiJob == [at |-> "none", status |-> "none", trail |-> <<>>, units |-> 0,
             results |-> 0, completedAt |-> -1, scraper |-> FALSE]
DeletedJob == [NoApiJob EXCEPT !.at = "deleted"]
NoResponse == [status |-> "none", hasResults |-> FALSE]

ConsentIdle ==
    /\ cPc = "idle" /\ probes = <<>> /\ numButtons = 0 /\ buttons = <<>>
    /\ cUrl = "consent" /\ cResult = "none"

LimitIdle ==
    /\ lNow = 0 /\ rateRecord = NoRecord
    /\ globalSeen = 0 /\ scrapeSeen = 0 /\ verdict = "none"

ApiIdle ==
    /\ aNow = 0 /\ apiJobs = [k \in ApiJobIds |-> NoApiJob]
    /\ lastGet = NoResponse

SideIdle == ConsentIdle /\ LimitIdle /\ ApiIdle

BudgetIdle ==
    /\ bPc = "idle" /\ bTerms = 1 /\ bIndex = 0 /\ bElapsed = 0
    /\ bCandidates = 0 /\ bReserve = 0 /\ bAllowance = 0 /\ bTrimmed = 0

\* The variables declared in the body of the search-term loop go out of
\* scope when an iteration ends, by completion or by a throw.
ResetTerm ==
    /\ j' = 0
    /\ placeLinks' = <<>>
    /\ newLinks' = <<>>
    /\ newLinksTrimmed' = <<>>
    /\ termAllowance' = 0
    /\ termDeadline' = 0
    /\ budgetedAt' = 0
    /\ results' = <<>>
    /\ emailJobs' = <<>>
    /\ attempts' = 0
    /\ placeStart' = 0
    /\ retryLink' = 0

RunIdle ==
    /\ numDirect = 0 /\ directIdx = 0
    /\ browserOpen = FALSE /\ closeCalls = 0
    /\ pageUrl = "none" /\ failureSite = "none"

ActorStart ==
    /\ i = 0 /\ j = 0
    /\ placeLinks = <<>> /\ newLinks = <<>> /\ newLinksTrimmed = <<>>
    /\ termAllowance = 0 /\ termDeadline = 0 /\ budgetedAt = 0
    /\ results = <<>> /\ emailJobs = <<>>
    /\ extractedUrls = {}
    /\ dataset = <<>>
    /\ totalResults = 0
    /\ lastNav = 0 /\ attempts = 0
    /\ placeStart = 0
    /\ skippedTerms = {}
    /\ retryLink = 0

Init ==
    /\ now = 0
    /\ numTerms \in 1..MaxTerms
    /\ scrapeEmails \in BOOLEAN
    /\ filterOn \in BOOLEAN
    /\ pc = "charge"
    /\ ActorStart
    /\ numDirect = 0 /\ directIdx = 0
    /\ browserOpen = FALSE /\ closeCalls = 0
    /\ pageUrl = "none" /\ failureSite = "none"
    /\ ScrollIdle
    /\ BudgetIdle
    /\ BootIdle
    /\ WebIdle
    /\ SideIdle

\* Everything of the main task but its position and the clock.
TermFrozen ==
    UNCHANGED <<numTerms, scrapeEmails, filterOn, i, j, placeLinks,
                newLinks, newLinksTrimmed, termAllowance, termDeadline,
                budgetedAt, results, emailJobs, extractedUrls, dataset,
                totalResults, lastNav, attempts, placeStart,
                skippedTerms, retryLink>>

\* A rejection that no local handler takes: catch sets actorFailed and
\* finally calls Actor.fail; nothing on that path closes the browser.
TopLevelCatch(site) ==
    /\ pc' = "failed"
    /\ failureSite' = site

\* try { await Actor.charge({ eventName: 'actor-start', count: 1 }); } catch {}
ChargeStart ==
    /\ pc = "charge"
    /\ \E charged \in BOOLEAN : pc' = "launch"
    /\ UNCHANGED now
    /\ TermFrozen
    /\ UNCHANGED runVars
    /\ UNCHANGED <<scrollVars, budgetVars, auxVars>>

\* chromium.launch, browser.newContext, context.newPage
LaunchBrowser ==
    /\ pc = "launch"
    /\ \E outcome \in {"launchThrows", "contextThrows", "ok"} :
        /\ browserOpen' = (outcome # "launchThrows")
        /\ IF outcome = "ok"
           THEN pc' = "goto" /\ UNCHANGED failureSite
           ELSE TopLevelCatch("launch")
    /\ UNCHANGED now
    /\ TermFrozen
    /\ UNCHANGED <<numDirect, directIdx, closeCalls, pageUrl>>
    /\ UNCHANGED <<scrollVars, budgetVars, auxVars>>

\* await page.goto(mapsUrl, ...); await sleep(2000);
InitialGoto ==
    /\ pc = "goto"
    /\ \/ /\ \E u \in PageUrls : pageUrl' = u
          /\ \E t \in BootDur : now' = now + t
          /\ pc' = "consent"
          /\ UNCHANGED failureSite
       \/ /\ TopLevelCatch("bootNav")
          /\ UNCHANGED <<now, pageUrl>>
    /\ TermFrozen
    /\ UNCHANGED <<numDirect, directIdx, browserOpen, closeCalls>>
    /\ UNCHANGED <<scrollVars, budgetVars, auxVars>>

\* Consent handling and the single re-navigation to the Maps root; the loop
\* over the search terms follows whatever page.url() is afterwards.
ConsentGate ==
    /\ pc = "consent"
    /\ \E afterConsent \in PageUrls, afterRenav \in PageUrls, navOk \in BOOLEAN :
        LET currentUrl == IF pageUrl = "consent" THEN afterConsent ELSE pageUrl
        IN  IF currentUrl = "maps"
            THEN pageUrl' = currentUrl /\ pc' = "termHead" /\ UNCHANGED failureSite
            ELSE IF navOk
                 THEN pageUrl' = afterRenav /\ pc' = "termHead"
                      /\ UNCHANGED failureSite
                 ELSE pageUrl' = currentUrl /\ TopLevelCatch("consentNav")
    /\ UNCHANGED now
    /\ TermFrozen
    /\ UNCHANGED <<numDirect, directIdx, browserOpen, closeCalls>>
    /\ UNCHANGED <<scrollVars, budgetVars, auxVars>>

\* for (let i = 0; i < searchTerms.length; i++) { if (!timeOk(30_000)) break;
TermGuardPasses ==
    /\ pc = "termHead" /\ i < numTerms
    /\ timeOk(now, TermGuardMs)
    /\ pc' = "search"
    /\ UNCHANGED <<now, numTerms, scrapeEmails, filterOn, i, j, placeLinks,
                   newLinks, newLinksTrimmed, termAllowance, termDeadline,
                   budgetedAt, results, emailJobs, extractedUrls, dataset,
                   totalResults, lastNav, attempts, placeStart,
                   skippedTerms, retryLink>>
    /\ UNCHANGED <<scrollVars, budgetVars, auxVars>>
    /\ UNCHANGED runVars

TermGuardBreaks ==
    /\ pc = "termHead" /\ i < numTerms
    /\ ~timeOk(now, TermGuardMs)
    /\ pc' = "direct"
    /\ skippedTerms' = i..(numTerms - 1)
    /\ UNCHANGED retryLink
    /\ UNCHANGED <<now, numTerms, scrapeEmails, filterOn, i, j, placeLinks,
                   newLinks, newLinksTrimmed, termAllowance, termDeadline,
                   budgetedAt, results, emailJobs, extractedUrls, dataset,
                   totalResults, lastNav, attempts, placeStart>>
    /\ UNCHANGED <<scrollVars, budgetVars, auxVars>>
    /\ \E n \in 0..MaxDirect : numDirect' = n
    /\ UNCHANGED <<directIdx, browserOpen, closeCalls, pageUrl, failureSite>>

TermsExhausted ==
    /\ pc = "termHead" /\ i >= numTerms
    /\ pc' = "direct"
    /\ UNCHANGED <<now, numTerms, scrapeEmails, filterOn, i, j, placeLinks,
                   newLinks, newLinksTrimmed, termAllowance, termDeadline,
                   budgetedAt, results, emailJobs, extractedUrls, dataset,
                   totalResults, lastNav, attempts, placeStart,
                   skippedTerms, retryLink>>
    /\ UNCHANGED <<scrollVars, budgetVars, auxVars>>
    /\ \E n \in 0..MaxDirect : numDirect' = n
    /\ UNCHANGED <<directIdx, browserOpen, closeCalls, pageUrl, failureSite>>

\* Search, wait for links and collect; no links: continue with the next term.
SearchNoLinks ==
    /\ pc = "search"
    /\ \E t \in SearchEnds(now) : now' = t
    /\ i' = i + 1
    /\ pc' = "termHead"
    /\ UNCHANGED <<numTerms, scrapeEmails, filterOn, j, placeLinks,
                   newLinks, newLinksTrimmed, termAllowance, termDeadline,
                   budgetedAt, results, emailJobs, extractedUrls, dataset,
                   totalResults, lastNav, attempts, placeStart,
                   skippedTerms, retryLink>>
    /\ UNCHANGED <<scrollVars, budgetVars, auxVars>>
    /\ pageUrl' = "search"
    /\ UNCHANGED <<numDirect, directIdx, browserOpen, closeCalls, failureSite>>

\* Search and collect some links, then filter by the ledger, budget the term
\* and pre-trim (no await between the collector's return and the place loop).
SearchAndBudget ==
    /\ pc = "search"
    /\ \E t \in SearchEnds(now), links \in LinkLists \ {<<>>} :
        LET fresh == NewLinks(links, extractedUrls)
            deadline == TermDeadline(numTerms, i, t)
        IN  /\ now' = t
            /\ placeLinks' = links
            /\ newLinks' = fresh
            /\ termAllowance' = TermAllowance(numTerms, i, t)
            /\ termDeadline' = deadline
            /\ budgetedAt' = elapsed(t)
            /\ newLinksTrimmed' = PreTrim(fresh, deadline, t)
            /\ retryLink' = IF lastNav # 0 /\ lastNav \notin extractedUrls
                                 /\ lastNav \in Range(links)
                             THEN lastNav ELSE 0
    /\ j' = 0
    /\ attempts' = 0
    /\ results' = <<>>
    /\ emailJobs' = <<>>
    /\ pc' = "places"
    /\ UNCHANGED <<numTerms, scrapeEmails, filterOn, i, extractedUrls, dataset,
                   totalResults, lastNav, placeStart, skippedTerms>>
    /\ pageUrl' = "search"
    /\ UNCHANGED <<numDirect, directIdx, browserOpen, closeCalls, failureSite>>
    /\ UNCHANGED <<scrollVars, budgetVars, auxVars>>

\* A navigation of the search phase throws: the top-level catch ends the run.
SearchThrows ==
    /\ pc = "search"
    /\ \E site \in SearchSites : TopLevelCatch(site)
    /\ UNCHANGED now
    /\ TermFrozen
    /\ UNCHANGED <<numDirect, directIdx, browserOpen, closeCalls, pageUrl>>
    /\ UNCHANGED <<scrollVars, budgetVars, auxVars>>

\* One iteration of the place loop that passes the deadline check.
ExtractPlace ==
    /\ pc = "places" /\ j < Len(newLinksTrimmed)
    /\ ~TermLimitHit(now, termDeadline)
    /\ \E d \in PlaceDur, page \in Pages :
        LET url == newLinksTrimmed[j + 1]
            ok == PlaceOk(page)
            rec == Record(url)
        IN  /\ placeStart' = now
            /\ now' = now + d
            /\ lastNav' = url
            /\ results' = ResultsAfterPlace(ok, rec, results)
            /\ emailJobs' = JobsAfterPlace(ok, scrapeEmails, rec, results, emailJobs)
            /\ extractedUrls' = LedgerAfterPlace(ok, url, extractedUrls)
    /\ attempts' = attempts + 1
    /\ j' = j + 1
    /\ UNCHANGED <<pc, numTerms, scrapeEmails, filterOn, i, placeLinks,
                   newLinks, newLinksTrimmed, termAllowance, termDeadline,
                   budgetedAt, dataset, totalResults, skippedTerms, retryLink>>
    /\ UNCHANGED <<scrollVars, budgetVars, auxVars>>
    /\ UNCHANGED runVars

\* The check skipping the item instead of leaving the loop.
TermLimitSkipsItem ==
    /\ pc = "places" /\ j < Len(newLinksTrimmed)
    /\ TermLimitHit(now, termDeadline)
    /\ j' = j + 1
    /\ UNCHANGED <<now, pc, numTerms, scrapeEmails, filterOn, i, placeLinks,
                   newLinks, newLinksTrimmed, termAllowance, termDeadline,
                   budgetedAt, results, emailJobs, extractedUrls, dataset,
                   totalResults, lastNav, attempts, placeStart,
                   skippedTerms, retryLink>>
    /\ UNCHANGED <<scrollVars, budgetVars, auxVars>>
    /\ UNCHANGED runVars

\* if (Date.now() + 5_000 > termDeadline) break;
TermLimitReached ==
    /\ pc = "places" /\ j < Len(newLinksTrimmed)
    /\ TermLimitHit(now, termDeadline)
    /\ pc' = "reconcile"
    /\ UNCHANGED <<now, numTerms, scrapeEmails, filterOn, i, j, placeLinks,
                   newLinks, newLinksTrimmed, termAllowance, termDeadline,
                   budgetedAt, results, emailJobs, extractedUrls, dataset,
                   totalResults, lastNav, attempts, placeStart,
                   skippedTerms, retryLink>>
    /\ UNCHANGED <<scrollVars, budgetVars, auxVars>>
    /\ UNCHANGED runVars

PlacesDone ==
    /\ pc = "places" /\ j >= Len(newLinksTrimmed)
    /\ pc' = "reconcile"
    /\ UNCHANGED <<now, numTerms, scrapeEmails, filterOn, i, j, placeLinks,
                   newLinks, newLinksTrimmed, termAllowance, termDeadline,
                   budgetedAt, results, emailJobs, extractedUrls, dataset,
                   totalResults, lastNav, attempts, placeStart,
                   skippedTerms, retryLink>>
    /\ UNCHANGED <<scrollVars, budgetVars, auxVars>>
    /\ UNCHANGED runVars

\* A background lookup settles: scrapeEmailsFromWebsite(...).catch(() => [])
\* fulfils with a list of emails that is empty or not.
LookupSettles ==
    /\ pc \in {"places", "reconcile", "push"}
    /\ \E k \in 1..Len(emailJobs), v \in {"found", "empty"} :
        /\ emailJobs[k].state = "pending"
        /\ v = "found" => SiteHasEmails(emailJobs[k].site)
        /\ emailJobs' = [emailJobs EXCEPT ![k].state = v]
    /\ UNCHANGED <<now, pc, numTerms, scrapeEmails, filterOn, i, j, placeLinks,
                   newLinks, newLinksTrimmed, termAllowance, termDeadline,
                   budgetedAt, results, extractedUrls, dataset,
                   totalResults, lastNav, attempts, placeStart,
                   skippedTerms, retryLink>>
    /\ UNCHANGED <<scrollVars, budgetVars, auxVars>>
    /\ UNCHANGED runVars

\* if (emailJobs.length > 0) { ... } skipped
ReconcileNothing ==
    /\ pc = "reconcile" /\ Len(emailJobs) = 0
    /\ pc' = "push"
    /\ UNCHANGED <<now, numTerms, scrapeEmails, filterOn, i, j, placeLinks,
                   newLinks, newLinksTrimmed, termAllowance, termDeadline,
                   budgetedAt, results, emailJobs, extractedUrls, dataset,
                   totalResults, lastNav, attempts, placeStart,
                   skippedTerms, retryLink>>
    /\ UNCHANGED <<scrollVars, budgetVars, auxVars>>
    /\ UNCHANGED runVars

\* Every lookup settled before the sleep of the race ended.
ReconcileSettled ==
    /\ pc = "reconcile" /\ Len(emailJobs) > 0
    /\ AllSettled(emailJobs)
    /\ results' = PatchEmails(results, emailJobs)
    /\ pc' = "push"
    /\ UNCHANGED <<now, numTerms, scrapeEmails, filterOn, i, j, placeLinks,
                   newLinks, newLinksTrimmed, termAllowance, termDeadline,
                   budgetedAt, emailJobs, extractedUrls, dataset,
                   totalResults, lastNav, attempts, placeStart,
                   skippedTerms, retryLink>>
    /\ UNCHANGED <<scrollVars, budgetVars, auxVars>>
    /\ UNCHANGED runVars

\* The sleep of the race ended with some lookup still pending: settled = null.
ReconcileTimeout ==
    /\ pc = "reconcile" /\ Len(emailJobs) > 0
    /\ ~AllSettled(emailJobs)
    /\ now' = now + emailTimeout(now)
    /\ results' = PatchEmails(results, emailJobs)
    /\ pc' = "push"
    /\ UNCHANGED <<numTerms, scrapeEmails, filterOn, i, j, placeLinks,
                   newLinks, newLinksTrimmed, termAllowance, termDeadline,
                   budgetedAt, emailJobs, extractedUrls, dataset,
                   totalResults, lastNav, attempts, placeStart,
                   skippedTerms, retryLink>>
    /\ UNCHANGED <<scrollVars, budgetVars, auxVars>>
    /\ UNCHANGED runVars

\* Filters, Actor.pushData of every record, navigate back, next term.
PushResults ==
    /\ pc = "push"
    /\ LET kept == filterByRating(results, filterOn)
       IN  /\ dataset' = dataset \o [k \in 1..Len(kept) |-> kept[k].url]
           /\ totalResults' = totalResults + Len(kept)
    /\ \E d \in PushDur : now' = now + d
    /\ i' = i + 1
    /\ pc' = "termHead"
    /\ ResetTerm
    /\ UNCHANGED <<numTerms, scrapeEmails, filterOn, extractedUrls, lastNav,
                   skippedTerms>>
    /\ UNCHANGED <<scrollVars, budgetVars, auxVars>>
    /\ UNCHANGED runVars

\* await Actor.pushData(data) rejects for record k: the records before it
\* are in the dataset, the rest of the term and of the run is abandoned.
PushThrows ==
    /\ pc = "push"
    /\ LET kept == filterByRating(results, filterOn)
       IN  \E k \in 1..Len(kept) :
            dataset' = dataset \o [n \in 1..(k - 1) |-> kept[n].url]
    /\ TopLevelCatch("pushData")
    /\ ResetTerm
    /\ UNCHANGED <<now, numTerms, scrapeEmails, filterOn, i, extractedUrls,
                   totalResults, lastNav, skippedTerms>>
    /\ UNCHANGED <<numDirect, directIdx, browserOpen, closeCalls, pageUrl>>
    /\ UNCHANGED <<scrollVars, budgetVars, auxVars>>

\* Every record pushed, then the page.goto(mapsUrl) before the next term
\* rejects.
NavBackThrows ==
    /\ pc = "push"
    /\ LET kept == filterByRating(results, filterOn)
       IN  /\ dataset' = dataset \o [k \in 1..Len(kept) |-> kept[k].url]
           /\ totalResults' = totalResults + Len(kept)
    /\ \E t \in PushDur :
        /\ now' = now + t
        /\ i < numTerms - 1 /\ timeOk(now + t, TermGuardMs)
    /\ TopLevelCatch("navBack")
    /\ ResetTerm
    /\ UNCHANGED <<numTerms, scrapeEmails, filterOn, i, extractedUrls,
                   lastNav, skippedTerms>>
    /\ UNCHANGED <<numDirect, directIdx, browserOpen, closeCalls, pageUrl>>
    /\ UNCHANGED <<scrollVars, budgetVars, auxVars>>

\* await browser.close(); then finally: Actor.exit()
CloseBrowser ==
    /\ browserOpen' = FALSE
    /\ closeCalls' = closeCalls + 1
    /\ pc' = "done"

\* for (const directUrl of directUrls) { if (!timeOk(30_000)) break;
DirectGuardBreaks ==
    /\ pc = "direct" /\ directIdx < numDirect
    /\ ~timeOk(now, TermGuardMs)
    /\ CloseBrowser
    /\ UNCHANGED now
    /\ TermFrozen
    /\ UNCHANGED <<numDirect, directIdx, pageUrl, failureSite>>
    /\ UNCHANGED <<scrollVars, budgetVars, auxVars>>

\* One direct URL: navigate, wait for links, collect; the links are only
\* counted in the log.
DirectUrl ==
    /\ pc = "direct" /\ directIdx < numDirect
    /\ timeOk(now, TermGuardMs)
    /\ \E t \in SearchDur : now' = now + t
    /\ directIdx' = directIdx + 1
    /\ pageUrl' = "direct"
    /\ UNCHANGED pc
    /\ TermFrozen
    /\ UNCHANGED <<numDirect, browserOpen, closeCalls, failureSite>>
    /\ UNCHANGED <<scrollVars, budgetVars, auxVars>>

DirectThrows ==
    /\ pc = "direct" /\ directIdx < numDirect
    /\ timeOk(now, TermGuardMs)
    /\ TopLevelCatch("directNav")
    /\ UNCHANGED now
    /\ TermFrozen
    /\ UNCHANGED <<numDirect, directIdx, browserOpen, closeCalls, pageUrl>>
    /\ UNCHANGED <<scrollVars, budgetVars, auxVars>>

\* The loop over the direct URLs is over: the browser is closed.
DirectDone ==
    /\ pc = "direct" /\ directIdx >= numDirect
    /\ CloseBrowser
    /\ UNCHANGED now
    /\ TermFrozen
    /\ UNCHANGED <<numDirect, directIdx, pageUrl, failureSite>>
    /\ UNCHANGED <<scrollVars, budgetVars, auxVars>>

Next ==
    \/ ChargeStart
    \/ LaunchBrowser
    \/ InitialGoto
    \/ ConsentGate
    \/ TermGuardPasses
    \/ TermGuardBreaks
    \/ TermsExhausted
    \/ SearchNoLinks
    \/ SearchAndBudget
    \/ SearchThrows
    \/ ExtractPlace
    \/ TermLimitReached
    \/ PlacesDone
    \/ LookupSettles
    \/ ReconcileNothing
    \/ ReconcileSettled
    \/ ReconcileTimeout
    \/ PushResults
    \/ PushThrows
    \/ NavBackThrows
    \/ DirectGuardBreaks
    \/ DirectUrl
    \/ DirectThrows
    \/ DirectDone

Spec == Init /\ [][Next]_vars

(* ===================== budget formulas on their own ==================== *)
\* Instants (ms of elapsed time) at which a term may be budgeted: before,
\* at and after the global deadline, on and off the 8 s per-place grid.
BudgetInstants ==
    {5000 * k : k \in 0..60} \cup {164999, 165000, 165001, 239999, 240001}

CandidateCounts == {0, 1, 3, 4, 12, 13, 40}

FirstLinks(n) == [k \in 1..n |-> k]

BudgetInit ==
    /\ now = 0
    /\ numTerms = 1
    /\ scrapeEmails = TRUE
    /\ filterOn = FALSE
    /\ pc = "idle"
    /\ ActorStart
    /\ RunIdle
    /\ ScrollIdle
    /\ BootIdle
    /\ WebIdle
    /\ SideIdle
    /\ bPc = "input"
    /\ bTerms \in 1..MaxBudgetTerms
    /\ bIndex \in 0..(bTerms - 1)
    /\ bElapsed \in BudgetInstants
    /\ bCandidates \in CandidateCounts
    /\ bReserve = 0 /\ bAllowance = 0 /\ bTrimmed = 0

\* Lines 1204-1214 applied to the inputs.
BudgetTerm ==
    /\ bPc = "input"
    /\ bReserve' = reserveForFuture(bTerms, bIndex)
    /\ bAllowance' = TermAllowance(bTerms, bIndex, bElapsed)
    /\ bTrimmed' = Len(PreTrim(FirstLinks(bCandidates),
                               TermDeadline(bTerms, bIndex, bElapsed), bElapsed))
    /\ bPc' = "budgeted"
    /\ UNCHANGED <<bTerms, bIndex, bElapsed, bCandidates>>
    /\ UNCHANGED <<actorVars, runVars, scrollVars, auxVars>>

BudgetNext == BudgetTerm

SpecBudget == BudgetInit /\ [][BudgetNext]_vars

(* ============================ scrollAndCollect ========================= *)
\* Anchors one harvest can return: any list of hrefs, repeats included.
DomLists == UNION {[1..k -> 1..MaxDomLinks] : k \in 0..MaxDom}

\* A long feed that loads one more place per round, or per second round at
\* the latest: the anchors in view are the last place loaded and, when one
\* arrives, the next place.
TrickleLists ==
    LET n == Len(collected)
        seen == IF n = 0 THEN <<>> ELSE <<n>>
    IN  IF staleRounds = 0 THEN {seen, Append(seen, n + 1)}
        ELSE {Append(seen, n + 1)}

FeedLists == IF feed = "trickle" THEN TrickleLists ELSE DomLists

\* Set.prototype.add on a Set kept in insertion order.
SetAdd(set, link) == IF link \in Range(set) THEN set ELSE Append(set, link)

\* for (const link of links) { if (placeLinks.size >= maxResults) break; placeLinks.add(link); }
RECURSIVE HarvestUncapped(_, _, _)
HarvestUncapped(set, links, cap) ==
    IF links = <<>> THEN set
    ELSE HarvestUncapped(SetAdd(set, Head(links)), Tail(links), cap)
RECURSIVE Harvest(_, _, _)
Harvest(set, links, cap) ==
    IF links = <<>> \/ Len(set) >= cap THEN set
    ELSE Harvest(SetAdd(set, Head(links)), Tail(links), cap)

\* if (scrollAttempts >= 3) { ... endReached ... }
TrustMarkerLater(scrolls) == scrolls >= EndCheckAfter + 1
TrustEndMarker(scrolls) == scrolls >= EndCheckAfter

LoopConditionNoCeiling ==
    /\ Len(collected) < maxResults
    /\ timeOk(now, ScrollGuardMs)
LoopCondition ==
    /\ Len(collected) < maxResults
    /\ scrollAttempts < MaxScrollAttempts
    /\ timeOk(now, ScrollGuardMs)

StaleAfter(size) == IF size = previousCount THEN staleRounds + 1 ELSE 0

\* const waitMs = staleRounds >= 3 ? 3000 : (scrollAttempts % 5 === 0 ? 2500 : 1500);
waitMs(stale, scrolls) ==
    IF stale >= 3 THEN 3000 ELSE IF scrolls % 5 = 0 THEN 2500 ELSE 1500

\* sleep of the recovery step taken at this staleness
recoverySleep(stale) ==
    IF stale = 2 \/ stale = 3 THEN 2000 ELSE IF stale = 4 THEN 2500 ELSE 0

recoveryStepSwapped(stale) ==
    IF stale = 2 THEN "keyboard"
    ELSE IF stale = 3 THEN "intoView"
    ELSE IF stale = 4 THEN "showMore"
    ELSE "none"
recoveryStep(stale) ==
    IF stale = 2 THEN "intoView"
    ELSE IF stale = 3 THEN "keyboard"
    ELSE IF stale = 4 THEN "showMore"
    ELSE "none"

RecoveryLadder == <<"intoView", "keyboard", "showMore">>

\* The steps applied in the current run of stale rounds, oldest first.
StepsAfter(stale, step) ==
    IF stale = 0 THEN <<>>
    ELSE IF step = "none" THEN stepsTried
    ELSE Append(stepsTried, step)

ScrollStarts == {0, 255000}

ScrollInit ==
    /\ now \in ScrollStarts
    /\ numTerms = 1
    /\ scrapeEmails = TRUE
    /\ filterOn = FALSE
    /\ pc = "idle"
    /\ ActorStart
    /\ RunIdle
    /\ BudgetIdle
    /\ BootIdle
    /\ WebIdle
    /\ SideIdle
    /\ sPc = "loop"
    /\ \/ feed = "any" /\ maxResults \in 0..MaxTarget
       \/ feed = "trickle" /\ maxResults = DefaultMaxResults
    /\ collected = <<>>
    /\ scrollAttempts = 0 /\ previousCount = 0 /\ staleRounds = 0
    /\ markerSeen = FALSE /\ inspectedAt = -1 /\ lastStep = "none"
    /\ stepsTried = <<>>

\* while (placeLinks.size < maxResults && scrollAttempts < 100 && timeOk(10_000)) fails
ScrollLoopExit ==
    /\ sPc = "loop"
    /\ ~LoopCondition
    /\ sPc' = "done"
    /\ UNCHANGED <<maxResults, collected, scrollAttempts, previousCount,
                   staleRounds, markerSeen, inspectedAt, lastStep,
                   stepsTried, feed>>
    /\ UNCHANGED <<actorVars, runVars, budgetVars, auxVars>>

\* The harvest and staleness update every round starts with.
RoundHead(links, marker) ==
    /\ sPc = "loop"
    /\ LoopCondition
    /\ collected' = Harvest(collected, links, maxResults)
    /\ staleRounds' = StaleAfter(Len(collected'))
    /\ previousCount' = Len(collected')
    /\ markerSeen' = marker
    /\ inspectedAt' = scrollAttempts
    /\ UNCHANGED feed

ActorFrozen ==
    UNCHANGED <<pc, numTerms, scrapeEmails, filterOn, i, j, placeLinks,
                newLinks, newLinksTrimmed, termAllowance, termDeadline,
                budgetedAt, results, emailJobs, extractedUrls, dataset,
                totalResults, lastNav, attempts, placeStart, skippedTerms, retryLink>>
    /\ UNCHANGED <<runVars, auxVars>>

\* The round ends the loop: the end marker is trusted and present.
RoundEndOfList ==
    /\ \E links \in FeedLists : RoundHead(links, TRUE)
    /\ TrustEndMarker(scrollAttempts)
    /\ sPc' = "done"
    /\ lastStep' = "end"
    /\ stepsTried' = StepsAfter(staleRounds', "none")
    /\ UNCHANGED <<now, maxResults, scrollAttempts>>
    /\ ActorFrozen
    /\ UNCHANGED budgetVars

\* Stale for the third round or more with the feed at its bottom.
RoundAtBottom ==
    /\ \E links \in FeedLists, marker \in BOOLEAN :
        /\ RoundHead(links, marker)
        /\ ~(TrustEndMarker(scrollAttempts) /\ marker)
    /\ staleRounds' >= 3
    /\ sPc' = "done"
    /\ lastStep' = "bottom"
    /\ stepsTried' = StepsAfter(staleRounds', "none")
    /\ UNCHANGED <<now, maxResults, scrollAttempts>>
    /\ ActorFrozen
    /\ UNCHANGED budgetVars

\* Stale rounds 2, 3, 4: one recovery step, then the wait.
RoundRecovery ==
    /\ \E links \in FeedLists, marker \in BOOLEAN :
        /\ RoundHead(links, marker)
        /\ ~(TrustEndMarker(scrollAttempts) /\ marker)
    /\ staleRounds' \in 2..4
    /\ lastStep' = recoveryStep(staleRounds')
    /\ stepsTried' = StepsAfter(staleRounds', lastStep')
    /\ scrollAttempts' = scrollAttempts + 1
    /\ now' = now + recoverySleep(staleRounds') + waitMs(staleRounds', scrollAttempts')
    /\ UNCHANGED <<sPc, maxResults>>
    /\ ActorFrozen
    /\ UNCHANGED budgetVars

\* if (staleRounds >= 5) break;
RoundGiveUp ==
    /\ \E links \in FeedLists, marker \in BOOLEAN :
        /\ RoundHead(links, marker)
        /\ ~(TrustEndMarker(scrollAttempts) /\ marker)
    /\ staleRounds' >= 5
    /\ sPc' = "done"
    /\ lastStep' = "giveUp"
    /\ stepsTried' = StepsAfter(staleRounds', "none")
    /\ UNCHANGED <<now, maxResults, scrollAttempts>>
    /\ ActorFrozen
    /\ UNCHANGED budgetVars

\* Fewer than two stale rounds: the normal scroll, then the wait.
RoundScroll ==
    /\ \E links \in FeedLists, marker \in BOOLEAN :
        /\ RoundHead(links, marker)
        /\ ~(TrustEndMarker(scrollAttempts) /\ marker)
    /\ staleRounds' < 2
    /\ lastStep' = "scroll"
    /\ stepsTried' = StepsAfter(staleRounds', "none")
    /\ scrollAttempts' = scrollAttempts + 1
    /\ now' = now + waitMs(staleRounds', scrollAttempts')
    /\ UNCHANGED <<sPc, maxResults>>
    /\ ActorFrozen
    /\ UNCHANGED budgetVars

ScrollNext ==
    \/ ScrollLoopExit
    \/ RoundEndOfList
    \/ RoundAtBottom
    \/ RoundRecovery
    \/ RoundGiveUp
    \/ RoundScroll

SpecScroll == ScrollInit /\ [][ScrollNext]_vars

\* Every await of a round settles (the page calls are caught, the sleeps are
\* timers), so a round that can run does run.
SpecScrollFair == SpecScroll /\ WF_vars(ScrollNext)

(* =================== bootstrap with proxy fallback ====================== *)
\* Everything outside the bootstrap stands still.
BootFrame ==
    /\ UNCHANGED <<actorVars, runVars, scrollVars, budgetVars, webVars, sideVars>>

ProxyOptions == {"none", "unparsable", "usable"}
LaunchOutcomes == {"launchThrows", "gotoThrows", "ok"}

\* What follows launchAndTest(playwrightProxy, 'PROXY'): the statements after
\* it in the try, or the catch with its direct attempt.
RetryProxy(outcome) == IF outcome = "ok" THEN "consent" ELSE "proxy"
AfterProxyAttempt(outcome) == IF outcome = "ok" THEN "consent" ELSE "direct"

\* chromium.launch resolved: the browser b exists, whatever happens to the
\* navigation that follows.
Launched(outcome) == IF outcome = "launchThrows" THEN 0 ELSE 1

BootInit ==
    /\ now = 0
    /\ numTerms = 1
    /\ scrapeEmails = TRUE
    /\ filterOn = FALSE
    /\ pc = "idle"
    /\ ActorStart
    /\ RunIdle
    /\ ScrollIdle
    /\ BudgetIdle
    /\ WebIdle
    /\ SideIdle
    /\ xPc = "setup"
    /\ proxyUrl \in ProxyOptions
    /\ xNumTerms \in 1..MaxBootTerms
    /\ proxyOutcome = "none"
    /\ proxyAttempts = 0 /\ directAttempts = 0 /\ liveBrowsers = 0
    /\ browser = FALSE /\ xUrl = "none" /\ xTerm = 0

\* if (proxyUrl) { parseProxyUrl ... if (playwrightProxy) ... else ... } else ...
ProxySetup ==
    /\ xPc = "setup"
    /\ xPc' = IF proxyUrl = "usable" THEN "proxy" ELSE "direct"
    /\ UNCHANGED <<proxyUrl, proxyOutcome, proxyAttempts, directAttempts,
                   liveBrowsers, browser, xUrl, xNumTerms, xTerm>>
    /\ BootFrame

\* try { const result = await launchAndTest(playwrightProxy, 'PROXY'); ... }
ProxyLaunchAndTest ==
    /\ xPc = "proxy"
    /\ \E outcome \in LaunchOutcomes, u \in PageUrls :
        /\ proxyAttempts' = proxyAttempts + 1
        /\ liveBrowsers' = liveBrowsers + Launched(outcome)
        /\ proxyOutcome' = IF outcome = "ok" THEN "ok" ELSE "failed"
        /\ browser' = (outcome = "ok")
        /\ xUrl' = IF outcome = "ok" THEN u ELSE xUrl
        /\ xPc' = AfterProxyAttempt(outcome)
    /\ UNCHANGED <<proxyUrl, directAttempts, xNumTerms, xTerm>>
    /\ BootFrame

\* const result = await launchAndTest(null, 'DIRECT'); in the catch of the
\* proxied attempt or in one of the two else branches.
DirectLaunchAndTest ==
    /\ xPc = "direct"
    /\ \E outcome \in LaunchOutcomes, u \in PageUrls :
        /\ directAttempts' = directAttempts + 1
        /\ liveBrowsers' = liveBrowsers + Launched(outcome)
        /\ browser' = (outcome = "ok")
        /\ xUrl' = IF outcome = "ok" THEN u ELSE xUrl
        /\ xPc' = IF outcome = "ok" THEN "consent" ELSE "failed"
    /\ UNCHANGED <<proxyUrl, proxyOutcome, proxyAttempts, xNumTerms, xTerm>>
    /\ BootFrame

\* Consent handling and the single re-navigation of the proxy version.
BootConsentGate ==
    /\ xPc = "consent"
    /\ \E afterConsent \in PageUrls, afterRenav \in PageUrls, navOk \in BOOLEAN :
        LET currentUrl == IF xUrl = "consent" THEN afterConsent ELSE xUrl
        IN  IF currentUrl = "maps"
            THEN xUrl' = currentUrl /\ xPc' = "terms"
            ELSE IF navOk
                 THEN xUrl' = afterRenav /\ xPc' = "terms"
                 ELSE xUrl' = currentUrl /\ xPc' = "failed"
    /\ UNCHANGED <<proxyUrl, proxyOutcome, proxyAttempts, directAttempts,
                   liveBrowsers, browser, xNumTerms, xTerm>>
    /\ BootFrame

\* One iteration of the search-term loop of the proxy version, or a rejected
\* navigation in it.
BootTerm ==
    /\ xPc = "terms" /\ xTerm < xNumTerms
    /\ \/ xTerm' = xTerm + 1 /\ xUrl' = "search" /\ UNCHANGED xPc
       \/ xPc' = "failed" /\ UNCHANGED <<xTerm, xUrl>>
    /\ UNCHANGED <<proxyUrl, proxyOutcome, proxyAttempts, directAttempts,
                   liveBrowsers, browser, xNumTerms>>
    /\ BootFrame

\* await browser.close(); Actor.exit()
BootClose ==
    /\ xPc = "terms" /\ xTerm >= xNumTerms
    /\ liveBrowsers' = liveBrowsers - 1
    /\ browser' = FALSE
    /\ xPc' = "exited"
    /\ UNCHANGED <<proxyUrl, proxyOutcome, proxyAttempts, directAttempts,
                   xUrl, xNumTerms, xTerm>>
    /\ BootFrame

BootNext ==
    \/ ProxySetup
    \/ ProxyLaunchAndTest
    \/ DirectLaunchAndTest
    \/ BootConsentGate
    \/ BootTerm
    \/ BootClose

SpecBoot == BootInit /\ [][BootNext]_vars

(* ========================= webapp scrape scrapeJobs =========================== *)
WebFrame ==
    /\ UNCHANGED <<actorVars, runVars, scrollVars, budgetVars, bootVars, sideVars>>

UnitCounts == {1, 2}
PlacesPerUnit == {0, 1, 2}
\* What JSON.parse(webhook.events) is for the row POST /webhooks stored: an
\* array that lists the event, an array that does not, or no array at all
\* (events is stored unvalidated, e.g. null).
EventShapes == {"listed", "unlisted", "notArray"}

\* fireWebhooks rejects when events.includes is not callable.
fireWebhooksThrows(events) == events = "notArray"

\* The status left by the tail of runWebappScrapeJob after the deduction:
\* 'completed' is written, then await fireWebhooks(...); its rejection runs
\* the catch, which writes 'failed'.
StatusAfterDeduction(events) ==
    IF fireWebhooksThrows(events) THEN "failed" ELSE "completed"

WebInit ==
    /\ now = 0
    /\ numTerms = 1
    /\ scrapeEmails = TRUE
    /\ filterOn = FALSE
    /\ pc = "idle"
    /\ ActorStart
    /\ RunIdle
    /\ ScrollIdle
    /\ BudgetIdle
    /\ BootIdle
    /\ SideIdle
    /\ credits \in 0..MaxCredits
    /\ webhookEvents = "none"
    /\ scrapeJobs = [k \in JobIds |-> NoJob]
    /\ transactions = <<>>

\* POST /webhooks
PostWebhook ==
    /\ webhookEvents = "none"
    /\ \E shape \in EventShapes : webhookEvents' = shape
    /\ UNCHANGED <<credits, scrapeJobs, transactions>>
    /\ WebFrame

\* POST /credits/add
AddCredits ==
    /\ credits < MaxCredits
    /\ credits' = credits + 1
    /\ UNCHANGED <<webhookEvents, scrapeJobs, transactions>>
    /\ WebFrame

\* POST /scrape behind requireCredits(1): the row is inserted and
\* runWebappScrapeJob runs up to its first await (status 'running', scraper
\* constructed) before the 202 response is sent.
PostScrape ==
    /\ credits >= 1
    /\ \E k \in JobIds, n \in UnitCounts :
        /\ scrapeJobs[k].at = "none"
        /\ \A m \in 1..(k - 1) : scrapeJobs[m].at # "none"
        /\ scrapeJobs' = [scrapeJobs EXCEPT ![k] = [at |-> "initialize", status |-> "running",
                                        units |-> n, allResults |-> 0,
                                        creditsUsed |-> 0, scraper |-> TRUE]]
    /\ UNCHANGED <<credits, webhookEvents, transactions>>
    /\ WebFrame

\* catch (error) { UPDATE ... status = 'failed' ...; await fireWebhooks(...) }
JobCaught(job) == [job EXCEPT !.status = "failed", !.at = "finally"]

\* await scraper.initialize()
JobInitialize ==
    /\ \E k \in JobIds, ok \in BOOLEAN :
        /\ scrapeJobs[k].at = "initialize"
        /\ scrapeJobs' = [scrapeJobs EXCEPT ![k] =
                      IF ok THEN [@ EXCEPT !.at = "scrape"] ELSE JobCaught(@)]
    /\ UNCHANGED <<credits, webhookEvents, transactions>>
    /\ WebFrame

\* One scraper.scrapeUrl or scraper.searchPlaces call and the push of its
\* results to allResults.
JobScrapeUnit ==
    /\ \E k \in JobIds, ok \in BOOLEAN, n \in PlacesPerUnit :
        /\ scrapeJobs[k].at = "scrape" /\ scrapeJobs[k].units > 0
        /\ scrapeJobs' = [scrapeJobs EXCEPT ![k] =
                      IF ok THEN [@ EXCEPT !.units = @ - 1,
                                           !.allResults = @ + n]
                      ELSE JobCaught(@)]
    /\ UNCHANGED <<credits, webhookEvents, transactions>>
    /\ WebFrame

\* Deduct credits, record the transaction, mark the job completed, fire the
\* webhooks (and, when that rejects, the catch).
JobDeduct ==
    /\ \E k \in JobIds :
        /\ scrapeJobs[k].at = "scrape" /\ scrapeJobs[k].units = 0
        /\ LET used == scrapeJobs[k].allResults
           IN  /\ credits' = credits - used
               /\ transactions' = Append(transactions, [job |-> k, amount |-> -used])
               /\ scrapeJobs' = [scrapeJobs EXCEPT ![k] =
                            [@ EXCEPT !.creditsUsed = used,
                                      !.status = StatusAfterDeduction(webhookEvents),
                                      !.at = "finally"]]
    /\ UNCHANGED webhookEvents
    /\ WebFrame

\* finally { if (scraper) await scraper.close(); }
JobFinally ==
    /\ \E k \in JobIds :
        /\ scrapeJobs[k].at = "finally"
        /\ scrapeJobs' = [scrapeJobs EXCEPT ![k] = [@ EXCEPT !.scraper = FALSE, !.at = "settled"]]
    /\ UNCHANGED <<credits, webhookEvents, transactions>>
    /\ WebFrame

WebNext ==
    \/ PostWebhook
    \/ AddCredits
    \/ PostScrape
    \/ JobInitialize
    \/ JobScrapeUnit
    \/ JobDeduct
    \/ JobFinally

SpecWeb == WebInit /\ [][WebNext]_vars

(* ============================= handleConsent =========================== *)
ConsentFrame ==
    /\ UNCHANGED <<actorVars, runVars, scrollVars, budgetVars, bootVars,
                   webVars, limitVars, apiVars>>

\* for (let i = 0; i < Math.min(count, 5); i++)
ButtonsExaminedAll(count) == count
ButtonsExamined(count) == Min(count, ButtonProbeLimit)

\* What page.url() can be: "consent" holds 'consent.google', "consentYoutube"
\* is the consent page of the other host, "maps" is any other page.
ConsentUrls == {"consent", "consentYoutube"}
ClickUrls == ConsentUrls \cup {"maps"}

\* handleConsent(page) is entered on a consent page.
ConsentInit ==
    /\ now = 0
    /\ numTerms = 1
    /\ scrapeEmails = TRUE
    /\ filterOn = FALSE
    /\ pc = "idle"
    /\ ActorStart
    /\ RunIdle
    /\ ScrollIdle
    /\ BudgetIdle
    /\ BootIdle
    /\ WebIdle
    /\ LimitIdle
    /\ ApiIdle
    /\ cPc = "selectors" /\ probes = <<>> /\ numButtons = 0 /\ buttons = <<>>
    /\ cUrl \in ConsentUrls /\ cResult = "none"

\* btn.isVisible({ timeout: 1500 }).catch(() => false) gives false
SelectorHidden ==
    /\ cPc = "selectors" /\ Len(probes) < MaxSelectors
    /\ probes' = Append(probes, "hidden")
    /\ UNCHANGED <<cPc, numButtons, buttons, cUrl, cResult>>
    /\ ConsentFrame

\* visible; await btn.click(); await sleep(2000); return true;
SelectorClicked ==
    /\ cPc = "selectors" /\ Len(probes) < MaxSelectors
    /\ probes' = Append(probes, "clicked")
    /\ cUrl' \in ClickUrls
    /\ cResult' = "true"
    /\ cPc' = "returned"
    /\ UNCHANGED <<numButtons, buttons>>
    /\ ConsentFrame

\* visible; await btn.click() rejects; catch {} and on to the next selector
SelectorClickRejects ==
    /\ cPc = "selectors" /\ Len(probes) < MaxSelectors
    /\ probes' = Append(probes, "rejected")
    /\ UNCHANGED <<cPc, numButtons, buttons, cUrl, cResult>>
    /\ ConsentFrame

\* const count = await allButtons.count();
CountButtons ==
    /\ cPc = "selectors" /\ Len(probes) = MaxSelectors
    /\ numButtons' \in 0..MaxButtons
    /\ cPc' = "buttons"
    /\ UNCHANGED <<probes, buttons, cUrl, cResult>>
    /\ ConsentFrame

\* await allButtons.count() rejects: outside any try, handleConsent rejects
CountRejects ==
    /\ cPc = "selectors" /\ Len(probes) = MaxSelectors
    /\ cResult' = "throws"
    /\ cPc' = "rejected"
    /\ UNCHANGED <<probes, numButtons, buttons, cUrl>>
    /\ ConsentFrame

\* if (visible && text?.trim()) is false
ButtonSkipped ==
    /\ cPc = "buttons" /\ Len(buttons) < ButtonsExamined(numButtons)
    /\ \E visible, text \in BOOLEAN :
        /\ ~(visible /\ text)
        /\ buttons' = Append(buttons, [visible |-> visible, text |-> text,
                                       clicked |-> FALSE, urlAfter |-> cUrl])
    /\ UNCHANGED <<cPc, probes, numButtons, cUrl, cResult>>
    /\ ConsentFrame

\* await btn.click().catch(() => {}); await sleep(2000);
\* if (!page.url().includes('consent.google')) return true;
ButtonClicked ==
    /\ cPc = "buttons" /\ Len(buttons) < ButtonsExamined(numButtons)
    /\ \E url \in ClickUrls :
        /\ buttons' = Append(buttons, [visible |-> TRUE, text |-> TRUE,
                                       clicked |-> TRUE, urlAfter |-> url])
        /\ cUrl' = url
        /\ cResult' = IF url # "consent" THEN "true" ELSE cResult
        /\ cPc' = IF url # "consent" THEN "returned" ELSE cPc
    /\ UNCHANGED <<probes, numButtons>>
    /\ ConsentFrame

\* the button loop ends; return false;
ButtonsExhausted ==
    /\ cPc = "buttons" /\ Len(buttons) >= ButtonsExamined(numButtons)
    /\ cResult' = "false"
    /\ cPc' = "returned"
    /\ UNCHANGED <<probes, numButtons, buttons, cUrl>>
    /\ ConsentFrame

ConsentNext ==
    \/ SelectorHidden
    \/ SelectorClicked
    \/ SelectorClickRejects
    \/ CountButtons
    \/ CountRejects
    \/ ButtonSkipped
    \/ ButtonClicked
    \/ ButtonsExhausted

SpecConsent == ConsentInit /\ [][ConsentNext]_vars

(* ============================ API rate limiter ========================= *)
LimitFrame ==
    /\ UNCHANGED <<actorVars, runVars, scrollVars, budgetVars, bootVars,
                   webVars, consentVars, apiVars>>

\* rateLimitStore.get(key) || { count: 0, resetAt: now + windowMs }
Fetched(rec, t) ==
    IF rec = NoRecord THEN [count |-> 0, resetAt |-> t + WindowMs] ELSE rec

\* if (now > record.resetAt) { record.count = 0; record.resetAt = now + windowMs; }
Expires(rec, t) == rec # NoRecord /\ t > rec.resetAt

\* The record one pass through a rateLimit middleware leaves in the store:
\* the store is one Map of the module, shared by every instance.
Touched(rec, t) ==
    LET got == Fetched(rec, t)
        cur == IF t > got.resetAt
               THEN [count |-> 0, resetAt |-> t + WindowMs]
               ELSE got
    IN  [cur EXCEPT !.count = @ + 1]

\* if (record.count > max) return res.status(429)
Rejects(rec, max) == rec.count > max

LimitInit ==
    /\ now = 0
    /\ numTerms = 1
    /\ scrapeEmails = TRUE
    /\ filterOn = FALSE
    /\ pc = "idle"
    /\ ActorStart
    /\ RunIdle
    /\ ScrollIdle
    /\ BudgetIdle
    /\ BootIdle
    /\ WebIdle
    /\ ConsentIdle
    /\ ApiIdle
    /\ LimitIdle

\* A request of the client for any route but POST /api/v1/scrape, or one that
\* apiKeyAuth answers with 401: it passes the global limiter only.
OtherRequest ==
    /\ rateRecord.count < MaxCount
    /\ LET rec == Touched(rateRecord, lNow)
       IN  /\ rateRecord' = rec
           /\ globalSeen' = (IF Expires(rateRecord, lNow) THEN 0 ELSE globalSeen) + 1
           /\ scrapeSeen' = IF Expires(rateRecord, lNow) THEN 0 ELSE scrapeSeen
           /\ verdict' = IF Rejects(rec, GlobalMax) THEN "429global" ELSE "next"
    /\ UNCHANGED lNow
    /\ LimitFrame

\* POST /api/v1/scrape: app.use(rateLimit({ max: 30 })), apiKeyAuth, then
\* scrapeRateLimit = rateLimit({ max: 5 }), all in one tick.
ScrapeRequest ==
    /\ rateRecord.count + 1 < MaxCount
    /\ LET first == Touched(rateRecord, lNow)
           second == Touched(first, lNow)
           fresh == Expires(rateRecord, lNow)
       IN  /\ globalSeen' = (IF fresh THEN 0 ELSE globalSeen) + 1
           /\ IF Rejects(first, GlobalMax)
              THEN /\ rateRecord' = first
                   /\ scrapeSeen' = IF fresh THEN 0 ELSE scrapeSeen
                   /\ verdict' = "429global"
              ELSE /\ rateRecord' = second
                   /\ scrapeSeen' = (IF fresh THEN 0 ELSE scrapeSeen) + 1
                   /\ verdict' = IF Rejects(second, ScrapeMax)
                                 THEN "429scrape" ELSE "next"
    /\ UNCHANGED lNow
    /\ LimitFrame

\* Half a window goes by.
LimitTick ==
    /\ lNow < MaxClockTicks * ClockStep
    /\ lNow' = lNow + ClockStep
    /\ UNCHANGED <<rateRecord, globalSeen, scrapeSeen, verdict>>
    /\ LimitFrame

LimitNext ==
    \/ OtherRequest
    \/ ScrapeRequest
    \/ LimitTick

SpecLimit == LimitInit /\ [][LimitNext]_vars

(* ============================= API job store =========================== *)
ApiFrame ==
    /\ UNCHANGED <<actorVars, runVars, scrollVars, budgetVars, bootVars,
                   webVars, consentVars, limitVars>>

ApiUnitCounts == {1, 2}
ApiPlacesPerUnit == {0, 1}
TerminalStatuses == {"completed", "failed"}

\* jobStore.update(id, { status, ... }): Object.assign on the stored job
SetStatus(job, status) ==
    [job EXCEPT !.status = status, !.trail = Append(@, status)]

\* catch (error) { jobStore.update(jobId, { status: 'failed', error, completedAt }) }
ApiJobCaught(job, t) ==
    [SetStatus(job, "failed") EXCEPT !.completedAt = t, !.at = "finally"]

\* if (job.completedAt && (now - new Date(job.completedAt).getTime()) > maxAgeMs)
ExpiredWhateverStatus(job, t) == t - job.completedAt > CleanupMaxAgeMs
Expired(job, t) == job.completedAt # -1 /\ t - job.completedAt > CleanupMaxAgeMs

\* The body GET /jobs/:id answers with for a stored job.
JobResponse(job) ==
    [status |-> job.status, hasResults |-> (job.status = "completed")]

ApiInit ==
    /\ now = 0
    /\ numTerms = 1
    /\ scrapeEmails = TRUE
    /\ filterOn = FALSE
    /\ pc = "idle"
    /\ ActorStart
    /\ RunIdle
    /\ ScrollIdle
    /\ BudgetIdle
    /\ BootIdle
    /\ WebIdle
    /\ ConsentIdle
    /\ LimitIdle
    /\ ApiIdle

\* POST /scrape with a valid body: jobStore.create(params), then
\* runScrapeJob(job.id) runs up to its first await: status 'running'.
ApiPostScrape ==
    /\ \E k \in ApiJobIds, n \in ApiUnitCounts :
        /\ apiJobs[k].at = "none"
        /\ \A m \in 1..(k - 1) : apiJobs[m].at # "none"
        /\ LET created == [at |-> "initialize", status |-> "queued",
                           trail |-> <<"queued">>, units |-> n, results |-> 0,
                           completedAt |-> -1, scraper |-> TRUE]
           IN  apiJobs' = [apiJobs EXCEPT ![k] = SetStatus(created, "running")]
    /\ UNCHANGED <<aNow, lastGet>>
    /\ ApiFrame

\* await scraper.initialize() resolves or rejects
ApiJobInitialize ==
    /\ \E k \in ApiJobIds, ok \in BOOLEAN :
        /\ apiJobs[k].at = "initialize"
        /\ apiJobs' = [apiJobs EXCEPT ![k] =
                        IF ok THEN [@ EXCEPT !.at = "scrape"]
                        ELSE ApiJobCaught(@, aNow)]
    /\ UNCHANGED <<aNow, lastGet>>
    /\ ApiFrame

\* What the stored job is after a unit resolved with n places: the results
\* are updated, and after the last unit the try block runs on to
\* jobStore.update(jobId, { status: 'completed', results, completedAt }).
AfterUnit(job, n, t) ==
    LET grown == [job EXCEPT !.units = @ - 1, !.results = @ + n]
    IN  IF grown.units > 0 THEN grown
        ELSE [SetStatus(grown, "completed") EXCEPT !.completedAt = t,
                                                   !.at = "finally"]

\* One direct URL or search term: scrapeUrl / searchPlaces resolves with its
\* places or rejects.
ApiJobScrapeUnit ==
    /\ \E k \in ApiJobIds, ok \in BOOLEAN, n \in ApiPlacesPerUnit :
        /\ apiJobs[k].at = "scrape" /\ apiJobs[k].units > 0
        /\ ~ok => n = 0
        /\ apiJobs' = [apiJobs EXCEPT ![k] =
                        IF ok THEN AfterUnit(@, n, aNow)
                        ELSE ApiJobCaught(@, aNow)]
    /\ UNCHANGED <<aNow, lastGet>>
    /\ ApiFrame

\* finally { if (scraper) await scraper.close(); }
ApiJobFinally ==
    /\ \E k \in ApiJobIds :
        /\ apiJobs[k].at = "finally"
        /\ apiJobs' = [apiJobs EXCEPT ![k] = [@ EXCEPT !.at = "ended",
                                                      !.scraper = FALSE]]
    /\ UNCHANGED <<aNow, lastGet>>
    /\ ApiFrame

\* setInterval(() => this.cleanup(), ...): every expired job is deleted.
ApiCleanup ==
    /\ \E k \in ApiJobIds : apiJobs[k].at \notin {"none", "deleted"} /\ Expired(apiJobs[k], aNow)
    /\ apiJobs' = [k \in ApiJobIds |->
                    IF apiJobs[k].at \notin {"none", "deleted"} /\ Expired(apiJobs[k], aNow)
                    THEN DeletedJob
                    ELSE apiJobs[k]]
    /\ UNCHANGED <<aNow, lastGet>>
    /\ ApiFrame

\* GET /jobs/:id
ApiGetJob ==
    /\ \E k \in ApiJobIds :
        lastGet' = IF apiJobs[k].at \in {"none", "deleted"}
                   THEN [status |-> "notFound", hasResults |-> FALSE]
                   ELSE JobResponse(apiJobs[k])
    /\ UNCHANGED <<aNow, apiJobs>>
    /\ ApiFrame

\* One cleanup age goes by.
ApiTick ==
    /\ aNow < MaxApiTicks * ApiClockStep
    /\ aNow' = aNow + ApiClockStep
    /\ UNCHANGED <<apiJobs, lastGet>>
    /\ ApiFrame

ApiNext ==
    \/ ApiPostScrape
    \/ ApiJobInitialize
    \/ ApiJobScrapeUnit
    \/ ApiJobFinally
    \/ ApiCleanup
    \/ ApiGetJob
    \/ ApiTick

SpecApi == ApiInit /\ [][ApiNext]_vars

(* ================================ claims =============================== *)
InTerm == pc \in {"places", "reconcile", "push"}
FoundJobs == {k \in 1..Len(emailJobs) : emailJobs[k].state = "found"}
PatchedRecords == {r \in 1..Len(results) : results[r].emails = "web"}
ResultUrls(res) == {res[r].url : r \in 1..Len(res)}

\* C1: when the reconciliation wait is over, the number of records whose
\* emails field was patched equals the number J of lookups that resolved with
\* a non-empty value, also when other lookups are still pending (J < K).
C1_PatchedEqualsResolved ==
    pc = "push" => Cardinality(PatchedRecords) = Cardinality(FoundJobs)

\* C2 as stated: the term deadline is never later than the global deadline
\* START_TIME + TIMEOUT_MS, and no place navigation starts with remaining() <= 0.
C2_NeverExceedsSharedDeadline ==
    InTerm => /\ termDeadline <= TIMEOUT_MS
              /\ attempts > 0 => remaining(placeStart) > 0

\* C2 amended: a term deadline lies after the global deadline only when the
\* allowance is floored at 25,000 ms, and then it is the budgeting instant plus
\* 25,000 ms; no place navigation starts at t with t + 5,000 > termDeadline, so
\* a navigation with remaining() <= 0 happens only in a floored term.
C2_DeadlineWithinFloor ==
    InTerm =>
        /\ termDeadline = budgetedAt + termAllowance
        /\ termAllowance > 25000 => termDeadline <= TIMEOUT_MS - 5000
        /\ termDeadline > TIMEOUT_MS => termAllowance = 25000
        /\ attempts > 0 => placeStart + 5000 <= termDeadline
        /\ (attempts > 0 /\ termAllowance > 25000) => remaining(placeStart) > 0

C2_Witness ==
    /\ pc = "places" /\ attempts > 0
    /\ termAllowance = 25000
    /\ termDeadline > TIMEOUT_MS
    /\ remaining(placeStart) <= 0

\* C3 as stated: no search term of the input is skipped.
C3_NoTermSkipped == skippedTerms = {}

\* C3 amended: every term whose place loop is entered has an allowance of at
\* least 25,000 ms, also when earlier terms overran; terms are skipped, from
\* term i on, exactly when remaining() <= 30,000 at the head of the loop.
C3_FloorForStartedTerms ==
    /\ InTerm => /\ termAllowance >= 25000
                 /\ termDeadline - budgetedAt >= 25000
    /\ skippedTerms # {} => /\ pc \in {"direct", "done"}
                            /\ remaining(now) <= 30000
                            /\ skippedTerms = i..(numTerms - 1)
    /\ (pc = "search" \/ InTerm) => i < numTerms /\ skippedTerms = {}

C3_Witness ==
    /\ pc = "places" /\ i >= 1
    /\ remaining(budgetedAt) - (numTerms - i - 1) * 25000 - 5000 < 25000
    /\ termAllowance = 25000

\* C4: reserve = (n - i - 1) * 25,000 >= 0; the allowance is
\* max(remaining() - reserve - 5,000, 25,000), never below 25,000; with 3
\* terms and 10,000 ms elapsed at the second term, reserve = 25,000 and
\* allowance = 230,000.
C4_BudgetFormula ==
    bPc = "budgeted" =>
        LET rest == 270000 - bElapsed - bReserve - 5000
        IN  /\ bReserve = (bTerms - bIndex - 1) * 25000
            /\ bReserve >= 0
            /\ bAllowance >= 25000
            /\ bAllowance >= rest
            /\ bAllowance = 25000 \/ bAllowance = rest
            /\ (bTerms = 3 /\ bIndex = 1 /\ bElapsed = 10000) =>
                    (bReserve = 25000 /\ bAllowance = 230000)

C4_Witness ==
    /\ bPc = "budgeted"
    /\ bTerms = 3 /\ bIndex = 1 /\ bElapsed = 10000
    /\ bAllowance = 230000

\* C5: the place loop never attempts more links than
\* floor(termAllowance / 8,000); 40 candidates with an allowance of
\* 100,000 ms are trimmed to 12.
C5_PreTrimBound ==
    /\ InTerm => /\ Len(newLinksTrimmed) <= termAllowance \div 8000
                 /\ attempts <= Len(newLinksTrimmed)
                 /\ attempts <= termAllowance \div 8000
    /\ Len(PreTrim(FirstLinks(40), 265000, 165000)) = 12

C5_Witness ==
    /\ InTerm /\ attempts >= 1
    /\ Len(newLinks) > termAllowance \div 8000
    /\ Len(newLinksTrimmed) = termAllowance \div 8000

\* C6: the collector never holds more than maxResults links nor the same
\* link twice, and its set of links only grows.
C6_AtMostTargetNoDuplicates ==
    /\ [](Len(collected) <= maxResults /\ NoDuplicates(collected))
    /\ [][Range(collected) \subseteq Range(collected')]_vars

C6_Witness ==
    /\ sPc = "done" /\ maxResults >= 2
    /\ Len(collected) = maxResults
    /\ scrollAttempts >= 2

\* C7 as stated: a round that finds the end-of-list marker present is the
\* last one and does not scroll, whatever the round.
C7_StopsAtAnyMarkerRound ==
    markerSeen => sPc = "done" /\ lastStep = "end"

\* C7 amended: a round that finds the end-of-list marker present after at
\* least 3 completed scrolls is the last one and does not scroll, however
\* many links are missing; in the first three rounds the marker is ignored.
C7_StopsAtTrustedMarkerRound ==
    (markerSeen /\ inspectedAt >= 3) =>
        /\ sPc = "done"
        /\ lastStep = "end"
        /\ scrollAttempts = inspectedAt

C7_Witness ==
    /\ markerSeen /\ inspectedAt >= 3
    /\ sPc = "done"
    /\ Len(collected) + 2 <= maxResults

\* C8: the dedup ledger never loses a member: no step of the run, in any
\* term, removes a link from extractedUrls.
C8_LedgerMonotonic ==
    [][/\ extractedUrls \subseteq extractedUrls'
       /\ Cardinality(extractedUrls) <= Cardinality(extractedUrls')]_vars

C8_Witness ==
    /\ i >= 1 /\ pc = "places" /\ results # <<>>
    /\ \E u \in extractedUrls : u \notin ResultUrls(results)

\* C9: the place loop never navigates to a link that is in the ledger, and
\* no two pushed records carry the same link.
C9_NoRepeatedExtraction ==
    /\ [][attempts' = attempts + 1 => lastNav' \notin extractedUrls]_vars
    /\ [](NoDuplicates(dataset))

C9_Witness ==
    /\ i >= 1 /\ pc = "places" /\ attempts >= 1
    /\ Len(newLinks) < Len(placeLinks)
    /\ Len(dataset) >= 1

Attempted == {newLinksTrimmed[k] : k \in 1..attempts}

\* C10 as stated, its last part: a link whose extraction failed and that a
\* later query collects again is attempted by that query.
C10_FailedLinkAttemptedAgain ==
    (pc = "reconcile" /\ retryLink # 0) => retryLink \in Attempted

\* C10 amended: a link enters the ledger only in the step that appends its
\* record to results; a place step that appends no record leaves the ledger
\* alone; a term's new links are all its collected links that are not in the
\* ledger, so a link that failed or was cut earlier is a candidate again, and
\* it is attempted unless that term's pre-trim or deadline check cuts it.
C10_MarkAfterSuccess ==
    /\ [][/\ \A u \in extractedUrls' \ extractedUrls :
               /\ Len(results') = Len(results) + 1
               /\ results'[Len(results')].url = u
          /\ (attempts' = attempts + 1 /\ Len(results') = Len(results))
               => extractedUrls' = extractedUrls
          /\ (pc = "search" /\ pc' = "places")
               => Range(newLinks') = Range(placeLinks') \ extractedUrls]_vars
    /\ []((InTerm /\ retryLink # 0) =>
            /\ retryLink \in Range(newLinks)
            /\ pc = "reconcile" =>
                \/ retryLink \in Attempted
                \/ retryLink \notin Range(newLinksTrimmed)
                \/ /\ attempts < Len(newLinksTrimmed)
                   /\ TermLimitHit(now, termDeadline))

C10_Witness ==
    /\ i >= 1 /\ pc = "places" /\ attempts >= 1
    /\ retryLink # 0
    /\ lastNav = retryLink
    /\ retryLink \notin extractedUrls


\* Actor.fail / Actor.exit as the platform sees the end of the run.
FinalStatus ==
    CASE pc = "failed" -> "failed"
      [] pc = "done" -> "completed"
      [] OTHER -> "running"

\* C13: on every way the run can end (Actor.exit or Actor.fail) a browser
\* that was launched has been closed, and browser.close() ran at most once.
C13_BrowserClosedAtEveryEnd ==
    pc \in {"done", "failed"} => ~browserOpen /\ closeCalls <= 1

\* C14: the first search term is processed only while the page URL is the
\* Google Maps application; a gate that failed lets no term be processed.
C14_ReadyGate ==
    (pc = "search" /\ i = 0) => pageUrl = "maps"

\* C15: a place step appends one record or none (navigation or evaluate
\* threw, or the name was empty); either way it leaves the records already
\* appended, the dataset and the run's failure state as they were and moves
\* on to item j + 1; the place loop is left only
\* when the trimmed links are exhausted or the term deadline check fires, and
\* never for the top-level catch.
C15_ItemFailureIsolated ==
    /\ [][(pc = "places" /\ attempts' = attempts + 1)
          => /\ Len(results') \in {Len(results), Len(results) + 1}
             /\ SubSeq(results', 1, Len(results)) = results
             /\ dataset' = dataset
             /\ j' = j + 1
             /\ pc' = "places"
             /\ failureSite' = failureSite]_vars
    /\ [][(pc = "places" /\ pc' # "places")
          => /\ pc' = "reconcile"
             /\ \/ j >= Len(newLinksTrimmed)
                \/ TermLimitHit(now, termDeadline)]_vars
    /\ [](pc = "places" => Len(results) <= attempts /\ attempts = j)

C15_Witness ==
    /\ pc = "places" /\ attempts = 3
    /\ Len(results) = 2
    /\ results[1].url = newLinksTrimmed[1]
    /\ results[2].url = newLinksTrimmed[3]

\* C16: the top-level catch is reached only from the bootstrap (launch, first
\* navigation) and from the navigation of the consent handling.
C16_OnlyBootstrapFatal ==
    pc = "failed" => failureSite \in {"launch", "bootNav", "consentNav"}

\* C17: a rejected Actor.pushData does not end the run as failed.
C17_SinkFailureNotFatal ==
    failureSite = "pushData" => pc # "failed"

\* C18: a run whose search-term loop was stopped by the deadline does not
\* end with the status of a run that processed every term.
C18_PartialRunDistinguished ==
    (pc \in {"done", "failed"} /\ skippedTerms # {})
        => FinalStatus = "completed with partial term coverage"

RECURSIVE IsSubSeq(_, _)
IsSubSeq(s, t) ==
    IF s = <<>> THEN TRUE
    ELSE IF t = <<>> THEN FALSE
    ELSE IF Head(s) = Head(t) THEN IsSubSeq(Tail(s), Tail(t))
    ELSE IsSubSeq(s, Tail(t))

UrlsOf(res) == [k \in 1..Len(res) |-> res[k].url]

\* C19: the term index only moves from i to i + 1, and only when term i has
\* ended (no links, or its records were pushed); a term is started only at
\* the head of the loop; the place loop visits newLinksTrimmed in order,
\* which keeps the collector's order; the records of a term keep the order
\* of the visits and the dataset receives them in that order, filters only
\* removing records.
C19_Ordering ==
    /\ [][i' # i => /\ i' = i + 1
                    /\ pc \in {"search", "push"} /\ pc' = "termHead"]_vars
    /\ [][(pc' = "search" /\ pc # "search") => pc = "termHead"]_vars
    /\ [][attempts' = attempts + 1
            => lastNav' = newLinksTrimmed[attempts']]_vars
    /\ [](InTerm => /\ IsSubSeq(newLinks, placeLinks)
                    /\ newLinksTrimmed = SubSeq(newLinks, 1, Len(newLinksTrimmed))
                    /\ IsSubSeq(UrlsOf(results),
                                SubSeq(newLinksTrimmed, 1, attempts)))
    /\ [][dataset' # dataset
            => LET seg == SubSeq(dataset', Len(dataset) + 1, Len(dataset'))
               IN  /\ Len(dataset') >= Len(dataset)
                   /\ dataset' = dataset \o seg
                   /\ IsSubSeq(seg, UrlsOf(results))]_vars

C19_Witness ==
    /\ filterOn /\ pc = "termHead"
    /\ \E k \in 1..(Len(dataset) - 1) : dataset[k] = 2 /\ dataset[k + 1] = 4


BootSucceeded == xPc \in {"consent", "terms"}
BootFailed == xPc = "failed" /\ ~browser

\* C11: launchAndTest is called with the proxy at most once; after a failed
\* proxied attempt exactly one direct attempt follows and the proxy is not
\* tried again; after a successful proxied attempt no direct attempt is made.
C11_FallbackExactlyOnce ==
    /\ [](/\ proxyAttempts <= 1 /\ directAttempts <= 1
          /\ proxyOutcome = "ok" => directAttempts = 0
          /\ (proxyOutcome = "failed" /\ xPc # "direct") => directAttempts = 1
          /\ (proxyOutcome = "failed" /\ xPc = "direct") => directAttempts = 0
          /\ proxyUrl # "usable" => proxyAttempts = 0)
    /\ [][proxyOutcome = "failed" => proxyAttempts' = proxyAttempts]_vars

C11_Witness ==
    /\ proxyOutcome = "failed" /\ xPc = "terms"
    /\ proxyAttempts = 1 /\ directAttempts = 1

\* C12: after a successful bootstrap exactly one launched browser is live,
\* and after a bootstrap in which every attempt failed none is.
C12_OneLiveBrowser ==
    /\ BootSucceeded => liveBrowsers = 1
    /\ BootFailed => liveBrowsers = 0


JobRows(k) == SelectSeq(transactions, LAMBDA row : row.job = k)

\* C20: a scrape job whose status is 'failed' has deducted nothing: no
\* credit transaction of the job carries an amount and its credits_used is 0.
C20_FailedJobDeductsNothing ==
    \A k \in JobIds :
        scrapeJobs[k].status = "failed"
            => /\ \A n \in 1..Len(JobRows(k)) : JobRows(k)[n].amount = 0
               /\ scrapeJobs[k].creditsUsed = 0

RecoverySteps == {RecoveryLadder[n] : n \in 1..Len(RecoveryLadder)}
StallStops == {"giveUp", "bottom"}

\* C21 as stated: the collector stops because of stale rounds only at
\* staleRounds = 5, after all three recovery steps have been applied.
C21_StallStopOnlyAfterLadder ==
    (sPc = "done" /\ lastStep \in StallStops)
        => staleRounds = 5 /\ stepsTried = RecoveryLadder

\* C21 amended: the recovery steps of a run of stale rounds are applied in
\* the order into-view (staleRounds = 2), keyboard (3), show-more (4), one
\* per round and never with a normal scroll; the give-up exit is taken only
\* at staleRounds = 5 after all three; the at-bottom exit is taken from
\* staleRounds = 3 on, after the steps of the rounds before it; a round that
\* adds a link sets staleRounds to 0 and empties the ladder.
C21_RecoveryLadder ==
    /\ [](/\ stepsTried = SubSeq(RecoveryLadder, 1, Len(stepsTried))
          /\ sPc = "loop" =>
                Len(stepsTried) = (IF staleRounds < 2 THEN 0 ELSE staleRounds - 1)
          /\ lastStep \in RecoverySteps =>
                /\ staleRounds \in 2..4
                /\ lastStep = RecoveryLadder[staleRounds - 1]
                /\ stepsTried[Len(stepsTried)] = lastStep
          /\ lastStep = "scroll" => staleRounds < 2 /\ stepsTried = <<>>
          /\ lastStep = "giveUp" =>
                staleRounds = 5 /\ stepsTried = RecoveryLadder
          /\ lastStep = "bottom" =>
                /\ staleRounds \in 3..5
                /\ Len(stepsTried) = staleRounds - 2)
    /\ [][Len(collected') > Len(collected)
            => staleRounds' = 0 /\ stepsTried' = <<>>]_vars

C21_Witness ==
    /\ sPc = "done" /\ lastStep = "giveUp"
    /\ staleRounds = 5 /\ stepsTried = RecoveryLadder
    /\ Len(collected) >= 1

\* C22: scrollAndCollect ends, and never runs more than 100 rounds: the
\* round counter never exceeds the ceiling, every round that does not leave
\* the loop adds one to it, and under every feed the loop is left.
C22_TerminatesWithinCeiling ==
    /\ [](scrollAttempts <= MaxScrollAttempts)
    /\ [][sPc' = "loop" => scrollAttempts' = scrollAttempts + 1]_vars
    /\ <>(sPc = "done")

C22_Witness ==
    /\ sPc = "done"
    /\ scrollAttempts = MaxScrollAttempts
    /\ Len(collected) < maxResults
    /\ timeOk(now, ScrollGuardMs)
    /\ lastStep = "scroll"

StoppedEarly == pc \in {"reconcile", "push"} /\ j < Len(newLinksTrimmed)

WaitBound(t) == Min(remaining(t) - EmailSafetyMs, EmailCapMs)

\* C24 as stated: the reconciliation wait never exceeds
\* min(remaining() - 10,000, 15,000), whatever remaining() is.
C24_WaitWithinBound ==
    [][pc = "reconcile" => now' - now <= WaitBound(now)]_vars

\* C24 amended: the reconciliation wait never exceeds
\* max(min(remaining() - 10,000, 15,000), 3,000): it is within
\* min(remaining() - 10,000, 15,000) when remaining() >= 13,000 and is up to
\* 3,000 ms below that.
C24_WaitWithinFlooredBound ==
    [][pc = "reconcile"
        => /\ now' - now <= Max(WaitBound(now), EmailFloorMs)
           /\ now' - now <= EmailCapMs
           /\ remaining(now) >= EmailSafetyMs + EmailFloorMs
                => now' - now <= WaitBound(now)
           /\ remaining(now) < EmailSafetyMs + EmailFloorMs
                => now' - now <= EmailFloorMs]_vars

C24_Witness ==
    /\ pc = "push" /\ ~AllSettled(emailJobs)
    /\ remaining(now) < EmailSafetyMs

JobIndexes == {emailJobs[k].idx + 1 : k \in 1..Len(emailJobs)}
SameButEmails(old, new) == new = [old EXCEPT !.emails = new.emails]
LookupSettled ==
    /\ Len(emailJobs') = Len(emailJobs)
    /\ \E k \in 1..Len(emailJobs) :
        emailJobs[k].state = "pending" /\ emailJobs'[k].state # "pending"

\* C25: reconciliation keeps the number of records and every field but
\* emails, and changes emails only in records that have a lookup job; a
\* lookup that settles, in whatever stage of the term (also after the wait
\* ended without it), changes no record and nothing in the dataset; between
\* the end of the wait and the push no record changes.
C25_EnrichmentFrame ==
    /\ [][(pc = "reconcile" /\ pc' = "push")
            => /\ Len(results') = Len(results)
               /\ \A r \in 1..Len(results) :
                    /\ SameButEmails(results[r], results'[r])
                    /\ results'[r] # results[r] => r \in JobIndexes]_vars
    /\ [][LookupSettled => results' = results /\ dataset' = dataset]_vars
    /\ [][(pc = "push" /\ pc' = "push") => results' = results]_vars

C25_Witness ==
    /\ pc = "push"
    /\ PatchedRecords # {}
    /\ \E r \in 1..Len(results) : r \notin JobIndexes

\* C26: within a term the idx values of emailJobs are pairwise distinct,
\* each is an index of results, and results[idx] is the record of the place
\* whose website the job looks up, also when places between two jobs failed;
\* so reconciliation patches at most one job's value into a record.
C26_IndexDisjoint ==
    InTerm =>
        /\ \A k, n \in 1..Len(emailJobs) :
            k # n => emailJobs[k].idx # emailJobs[n].idx
        /\ \A k \in 1..Len(emailJobs) :
            /\ emailJobs[k].idx + 1 \in 1..Len(results)
            /\ results[emailJobs[k].idx + 1].url = emailJobs[k].site
            /\ results[emailJobs[k].idx + 1].website

C26_Witness ==
    /\ pc = "reconcile"
    /\ Len(emailJobs) >= 2
    /\ attempts > Len(results)
    /\ \E k \in 1..Len(emailJobs) :
        newLinksTrimmed[emailJobs[k].idx + 1] # emailJobs[k].site

\* C28: the user's credits column is never negative, whatever the
\* interleaving of scrape submissions and completions of background jobs.
C28_CreditsNeverNegative == credits >= 0

ClickedProbes == {k \in 1..Len(probes) : probes[k] = "clicked"}
ClickedButtons == {k \in 1..Len(buttons) : buttons[k].clicked}
FellBack == cPc \in {"buttons", "rejected"} \/ buttons # <<>> \/ cResult = "false"

\* C27 as stated: the selector clicked is the first visible one, and the
\* page's buttons are examined only when no listed selector was visible.
C27_FirstVisibleClicked ==
    /\ \A k \in ClickedProbes : \A m \in 1..(k - 1) : probes[m] = "hidden"
    /\ FellBack => \A k \in 1..Len(probes) : probes[k] = "hidden"

\* C27 amended: selectors are probed in list order; a visible selector whose
\* click rejects is passed over; the first visible selector whose click
\* goes through is the only one clicked and ends the call with true; the
\* page's buttons are examined only when every listed selector was hidden
\* or rejected its click, at most the first 5 of them, clicking exactly the
\* visible ones with text, going on only while the URL still holds
\* 'consent.google', returning true at the first click after which it does
\* not and false when there is none; the call rejects when counting the
\* buttons rejects.
C27_ConsentLadder ==
    /\ [](/\ Cardinality(ClickedProbes) <= 1
          /\ \A k \in ClickedProbes :
                /\ k = Len(probes)
                /\ \A m \in 1..(k - 1) : probes[m] \in {"hidden", "rejected"}
                /\ cPc = "returned" /\ cResult = "true" /\ buttons = <<>>
          /\ FellBack =>
                /\ Len(probes) = MaxSelectors
                /\ ClickedProbes = {}
          /\ Len(buttons) <= numButtons /\ Len(buttons) <= ButtonProbeLimit
          /\ \A k \in 1..Len(buttons) :
                /\ buttons[k].clicked <=> (buttons[k].visible /\ buttons[k].text)
                /\ (buttons[k].clicked /\ buttons[k].urlAfter # "consent")
                    => (k = Len(buttons) /\ cResult = "true")
          /\ (cResult = "true" /\ ClickedProbes = {}) =>
                /\ buttons # <<>>
                /\ buttons[Len(buttons)].clicked
                /\ buttons[Len(buttons)].urlAfter # "consent"
          /\ cResult = "false" =>
                /\ Len(buttons) = Min(numButtons, ButtonProbeLimit)
                /\ \A k \in ClickedButtons : buttons[k].urlAfter = "consent"
          /\ cResult = "throws" => buttons = <<>> /\ ClickedProbes = {})
    /\ [][/\ Len(probes') \in {Len(probes), Len(probes) + 1}
          /\ SubSeq(probes', 1, Len(probes)) = probes
          /\ Len(buttons') \in {Len(buttons), Len(buttons) + 1}
          /\ SubSeq(buttons', 1, Len(buttons)) = buttons]_vars

C27_Witness ==
    /\ cResult = "true"
    /\ \E k \in 1..Len(probes) : probes[k] = "rejected"
    /\ Len(buttons) = ButtonProbeLimit
    /\ numButtons > ButtonProbeLimit
    /\ Cardinality(ClickedButtons) >= 2

\* C29: the scrape limiter answers 429 only when more than 5 requests of the
\* key reached it in the current window, and the global limiter only when
\* more than 30 reached it; so the first 5 POST /scrape requests of a window
\* of a client with no other traffic are admitted.
C29_OwnLimitPerInstance ==
    /\ verdict = "429scrape" => scrapeSeen > ScrapeMax
    /\ verdict = "429global" => globalSeen > GlobalMax

Stored(job) == job.at \notin {"none", "deleted"}
IsPrefix(s, t) == Len(s) <= Len(t) /\ s = SubSeq(t, 1, Len(s))

\* C30: the statuses of a stored job form a prefix of queued, running,
\* completed or of queued, running, failed; no update changes a terminal
\* status; completedAt is set exactly in the terminal statuses; cleanup
\* deletes only jobs whose completedAt is set; GET /jobs/:id carries the
\* results array only for status completed.
C30_JobLifecycle ==
    /\ [](\A k \in ApiJobIds :
            Stored(apiJobs[k]) =>
                /\ \/ IsPrefix(apiJobs[k].trail, <<"queued", "running", "completed">>)
                   \/ IsPrefix(apiJobs[k].trail, <<"queued", "running", "failed">>)
                /\ apiJobs[k].trail # <<>>
                /\ apiJobs[k].status = apiJobs[k].trail[Len(apiJobs[k].trail)]
                /\ (apiJobs[k].completedAt # -1)
                        <=> (apiJobs[k].status \in TerminalStatuses))
    /\ [](lastGet.hasResults => lastGet.status = "completed")
    /\ [][\A k \in ApiJobIds :
            /\ (Stored(apiJobs[k]) /\ apiJobs[k].status \in TerminalStatuses
                    /\ Stored(apiJobs'[k]))
                => /\ apiJobs'[k].status = apiJobs[k].status
                   /\ apiJobs'[k].completedAt = apiJobs[k].completedAt
                   /\ apiJobs'[k].results = apiJobs[k].results
            /\ (Stored(apiJobs[k]) /\ ~Stored(apiJobs'[k]))
                => /\ apiJobs[k].completedAt # -1
                   /\ apiJobs[k].status \in TerminalStatuses]_vars

C30_Witness ==
    /\ lastGet.hasResults
    /\ \E k \in ApiJobIds : apiJobs[k].at = "deleted"
    /\ \E k \in ApiJobIds :
        /\ Stored(apiJobs[k]) /\ apiJobs[k].status = "failed"
        /\ apiJobs[k].results >= 1

====
